---- MODULE Spec2Model ----
(***************************************************************************)
(* Run scoring and run grouping of a team's 20-cell board                  *)
(* (calculatePlayerScore / getScoringGroups), modelled from the source.    *)
(*                                                                         *)
(* A cell is a number 1..MaxVal, the joker, or null.  The joker and null   *)
(* are encoded as integers outside the numeric range so that a board is a  *)
(* function 0..19 -> Int.                                                   *)
(***************************************************************************)
EXTENDS Integers, Sequences, FiniteSets, TLC

\* ---------------------------------------------------------------- bounds
MaxVal == 2          \* numeric cell values are 1..MaxVal
Window == 4          \* width of the freely chosen part of a board
ArrayFree == 2       \* freely chosen trailing elements of a stored array
MaxExtra == 2        \* a stored array has up to BoardLen + MaxExtra elements

\* ------------------------------------------------------- program constants
BoardLen == 20       \* Array(20) / i < 20
Null == 0            \* JS null (empty cell)
Joker == -1          \* the joker token
Undefined == -2      \* JS undefined (also a hole of a sparse array)
NaN == -999          \* result of parseInt on a key that is no number

Idx == 0..(BoardLen - 1)
Values == 1..MaxVal
Cell == Values \cup {Joker, Null}
Fill == Values \cup {Null}

\* the table shifted by one entry
SCORE_TABLE_Shifted ==
  LET t == <<0, 1, 3, 5, 7, 9, 11, 15, 20, 25, 30, 35, 40, 50, 60, 70, 85, 100, 150, 300, 300>>
  IN [n \in 0..20 |-> t[n + 1]]

SCORE_TABLE ==
  LET t == <<0, 0, 1, 3, 5, 7, 9, 11, 15, 20, 25, 30, 35, 40, 50, 60, 70, 85, 100, 150, 300>>
  IN [n \in 0..20 |-> t[n + 1]]

Min(a, b) == IF a <= b THEN a ELSE b

VARIABLES board, scoreDone, totalScore, connects, connectsLog,
          groupsDone, groupMap, groupConnects,
          raw, restoreDone, restored,
          pc, walkI, walkRun, walkSequence, walkCounter,
          gameData, endDone, gameEnd, rankingDone, finalRanking,
          utilsScoreDone, utilsScore, utilsGroupsDone, utilsGroupMap,
          games, activeGame, firebase, session, isFirebaseUpdate,
          recentLocalChange, lastCall

restoreVars == <<raw, restoreDone, restored>>
walkVars == <<pc, walkI, walkRun, walkSequence, walkCounter>>
endVars == <<gameData, endDone, gameEnd, rankingDone, finalRanking>>
utilsVars == <<utilsScoreDone, utilsScore, utilsGroupsDone, utilsGroupMap>>
gameVars == <<games, activeGame, firebase, session, isFirebaseUpdate,
              recentLocalChange, lastCall>>
extraVars == <<endVars, utilsVars, gameVars>>

vars == <<board, scoreDone, totalScore, connects, connectsLog,
          groupsDone, groupMap, groupConnects, restoreVars, walkVars,
          extraVars>>

\* ------------------------------------------------ calculatePlayerScore
\* Step 1 with a strict comparison
InitialConnectsStrict(b) ==
  [i \in Idx |->
     IF i >= 19 THEN FALSE
     ELSE IF b[i] = Null \/ b[i + 1] = Null THEN FALSE
     ELSE IF b[i] # Joker /\ b[i + 1] # Joker THEN b[i] < b[i + 1]
     ELSE TRUE]

\* Step 1 testing for a joker before testing for an empty cell
InitialConnectsJokerFirst(b) ==
  [i \in Idx |->
     IF i >= 19 THEN FALSE
     ELSE IF b[i] = Joker \/ b[i + 1] = Joker THEN TRUE
     ELSE IF b[i] = Null \/ b[i + 1] = Null THEN FALSE
     ELSE b[i] <= b[i + 1]]

\* Step 1: connects[i] for i = 0..18; connects[19] stays false.
InitialConnects(b) ==
  [i \in Idx |->
     IF i >= 19 THEN FALSE
     ELSE IF b[i] = Null \/ b[i + 1] = Null THEN FALSE
     ELSE IF b[i] # Joker /\ b[i + 1] # Joker THEN b[i] <= b[i + 1]
     ELSE TRUE]

\* the backward scan giving up at the first wildcard
RECURSIVE ScanBeforeStopAtJoker(_, _)
ScanBeforeStopAtJoker(b, k) ==
  IF k < 0 THEN Null
  ELSE IF b[k] = Null THEN Null
  ELSE IF b[k] # Joker THEN b[k]
  ELSE Null

\* nearest numeric value before the joker; Null when none
RECURSIVE ScanBefore(_, _)
ScanBefore(b, k) ==
  IF k < 0 THEN Null
  ELSE IF b[k] = Null THEN Null
  ELSE IF b[k] # Joker THEN b[k]
  ELSE ScanBefore(b, k - 1)

BeforeVal(b, i) == ScanBefore(b, i - 1)

\* nearest numeric value after the joker; Null when none
RECURSIVE ScanAfter(_, _)
ScanAfter(b, k) ==
  IF k >= 20 THEN Null
  ELSE IF b[k] = Null THEN Null
  ELSE IF b[k] # Joker THEN b[k]
  ELSE ScanAfter(b, k + 1)

AfterVal(b, i) == ScanAfter(b, i + 1)

\* the break test with a strict comparison
NeedsBreakStrict(b, i) ==
  /\ BeforeVal(b, i) # Null
  /\ AfterVal(b, i) # Null
  /\ BeforeVal(b, i) > AfterVal(b, i)

\* the break test without the check that a value after the joker exists
NeedsBreakNoAfterCheck(b, i) ==
  /\ BeforeVal(b, i) # Null
  /\ BeforeVal(b, i) >= AfterVal(b, i)

NeedsBreak(b, i) ==
  /\ BeforeVal(b, i) # Null
  /\ AfterVal(b, i) # Null
  /\ BeforeVal(b, i) >= AfterVal(b, i)

RECURSIVE LeftWalk(_, _, _)
LeftWalk(b, k, len) ==
  IF ~(k >= 0 /\ b[k] # Null) THEN len
  ELSE IF k > 0 /\ b[k - 1] # Null /\ b[k] # Joker /\ b[k - 1] # Joker
       THEN IF b[k - 1] <= b[k] THEN LeftWalk(b, k - 1, len + 1)
            ELSE len + 1
       ELSE IF b[k] # Joker THEN len + 1
            ELSE LeftWalk(b, k - 1, len + 1)

LeftLength(b, i) == LeftWalk(b, i - 1, 1)

RECURSIVE RightWalk(_, _, _)
RightWalk(b, k, len) ==
  IF ~(k < 20 /\ b[k] # Null) THEN len
  ELSE IF k < 19 /\ b[k + 1] # Null /\ b[k] # Joker /\ b[k + 1] # Joker
       THEN IF b[k] <= b[k + 1] THEN RightWalk(b, k + 1, len + 1)
            ELSE len + 1
       ELSE IF b[k] # Joker THEN len + 1
            ELSE RightWalk(b, k + 1, len + 1)

RightLength(b, i) == RightWalk(b, i + 1, 1)

\* the decision joining the left run only while the left link still stands
BreakDecisionReadsConnects(b, c, i) ==
  IF LeftLength(b, i) >= RightLength(b, i) /\ (i = 0 \/ c[i - 1])
  THEN IF i < 19 THEN [c EXCEPT ![i] = FALSE] ELSE c
  ELSE IF i > 0 THEN [c EXCEPT ![i - 1] = FALSE] ELSE c

\* the decision with ties resolved to the right
BreakDecisionTieRight(b, c, i) ==
  IF LeftLength(b, i) > RightLength(b, i)
  THEN IF i < 19 THEN [c EXCEPT ![i] = FALSE] ELSE c
  ELSE IF i > 0 THEN [c EXCEPT ![i - 1] = FALSE] ELSE c

\* "Break on the shorter side"
BreakDecision(b, c, i) ==
  IF LeftLength(b, i) >= RightLength(b, i)
  THEN IF i < 19 THEN [c EXCEPT ![i] = FALSE] ELSE c
  ELSE IF i > 0 THEN [c EXCEPT ![i - 1] = FALSE] ELSE c

\* one iteration of the Step 2 loop
ResolveJoker(b, c, i) ==
  IF b[i] # Joker THEN c
  ELSE IF NeedsBreak(b, i) THEN BreakDecision(b, c, i)
  ELSE c

\* Step 2: <<connects after Step 1, after iteration i = 0, ..., after i = n-1>>
RECURSIVE Step2Log(_, _)
Step2Log(b, n) ==
  IF n = 0 THEN <<InitialConnects(b)>>
  ELSE LET prev == Step2Log(b, n - 1)
       IN Append(prev, ResolveJoker(b, prev[n], n - 1))

FinalConnects(b) == Step2Log(b, 20)[21]

\* the inner while stopping one cell early
RECURSIVE RunEndShort(_, _)
RunEndShort(c, i) == IF i < 18 /\ c[i] THEN RunEndShort(c, i + 1) ELSE i

\* Step 3: inner while, returns the index of the run's last cell
RECURSIVE RunEnd(_, _)
RunEnd(c, i) == IF i < 19 /\ c[i] THEN RunEnd(c, i + 1) ELSE i

RECURSIVE ScoreWalk(_, _, _, _)
ScoreWalk(b, c, i, total) ==
  IF i >= 20 THEN total
  ELSE IF b[i] = Null THEN ScoreWalk(b, c, i + 1, total)
  ELSE LET j == RunEnd(c, i)
           runLength == 1 + (j - i)
       IN ScoreWalk(b, c, j + 1, total + SCORE_TABLE[Min(runLength, 20)])

calculatePlayerScore(b) == ScoreWalk(b, FinalConnects(b), 0, 0)

\* ---------------------------------------------------- getScoringGroups
GroupInitialConnects(b) ==
  [i \in Idx |->
     IF i >= 19 THEN FALSE
     ELSE IF b[i] = Null \/ b[i + 1] = Null THEN FALSE
     ELSE IF b[i] # Joker /\ b[i + 1] # Joker THEN b[i] <= b[i + 1]
     ELSE TRUE]

RECURSIVE GroupScanBefore(_, _)
GroupScanBefore(b, k) ==
  IF k < 0 THEN Null
  ELSE IF b[k] = Null THEN Null
  ELSE IF b[k] # Joker THEN b[k]
  ELSE GroupScanBefore(b, k - 1)

RECURSIVE GroupScanAfter(_, _)
GroupScanAfter(b, k) ==
  IF k >= 20 THEN Null
  ELSE IF b[k] = Null THEN Null
  ELSE IF b[k] # Joker THEN b[k]
  ELSE GroupScanAfter(b, k + 1)

GroupNeedsBreak(b, i) ==
  /\ GroupScanBefore(b, i - 1) # Null
  /\ GroupScanAfter(b, i + 1) # Null
  /\ GroupScanBefore(b, i - 1) >= GroupScanAfter(b, i + 1)

RECURSIVE GroupLeftWalk(_, _, _)
GroupLeftWalk(b, k, len) ==
  IF ~(k >= 0 /\ b[k] # Null) THEN len
  ELSE IF k > 0 /\ b[k - 1] # Null /\ b[k] # Joker /\ b[k - 1] # Joker
       THEN IF b[k - 1] <= b[k] THEN GroupLeftWalk(b, k - 1, len + 1)
            ELSE len + 1
       ELSE IF b[k] # Joker THEN len + 1
            ELSE GroupLeftWalk(b, k - 1, len + 1)

RECURSIVE GroupRightWalk(_, _, _)
GroupRightWalk(b, k, len) ==
  IF ~(k < 20 /\ b[k] # Null) THEN len
  ELSE IF k < 19 /\ b[k + 1] # Null /\ b[k] # Joker /\ b[k + 1] # Joker
       THEN IF b[k] <= b[k + 1] THEN GroupRightWalk(b, k + 1, len + 1)
            ELSE len + 1
       ELSE IF b[k] # Joker THEN len + 1
            ELSE GroupRightWalk(b, k + 1, len + 1)

\* the grouping decision with ties resolved to the right
GroupBreakDecisionTieRight(b, c, i) ==
  IF GroupLeftWalk(b, i - 1, 1) > GroupRightWalk(b, i + 1, 1)
  THEN IF i < 19 THEN [c EXCEPT ![i] = FALSE] ELSE c
  ELSE IF i > 0 THEN [c EXCEPT ![i - 1] = FALSE] ELSE c

GroupBreakDecision(b, c, i) ==
  IF GroupLeftWalk(b, i - 1, 1) >= GroupRightWalk(b, i + 1, 1)
  THEN IF i < 19 THEN [c EXCEPT ![i] = FALSE] ELSE c
  ELSE IF i > 0 THEN [c EXCEPT ![i - 1] = FALSE] ELSE c

GroupResolveJoker(b, c, i) ==
  IF b[i] # Joker THEN c
  ELSE IF GroupNeedsBreak(b, i) THEN GroupBreakDecision(b, c, i)
  ELSE c

\* "Handle joker breaks": connects after the first n iterations
RECURSIVE GroupJokerBreaks(_, _)
GroupJokerBreaks(b, n) ==
  IF n = 0 THEN GroupInitialConnects(b)
  ELSE GroupResolveJoker(b, GroupJokerBreaks(b, n - 1), n - 1)

GroupFinalConnects(b) == GroupJokerBreaks(b, 20)

\* the inner while stopping one cell early
RECURSIVE SequenceEndShort(_, _)
SequenceEndShort(c, i) == IF i < 18 /\ c[i] THEN SequenceEndShort(c, i + 1) ELSE i

\* inner while of "Build groups from connections": index of the last cell
\* pushed onto currentSequence
RECURSIVE SequenceEnd(_, _)
SequenceEnd(c, i) == IF i < 19 /\ c[i] THEN SequenceEnd(c, i + 1) ELSE i

RECURSIVE GroupWalkCountAll(_, _, _, _, _)
GroupWalkCountAll(b, c, i, groupCounter, map) ==
  IF i >= 20 THEN map
  ELSE IF b[i] = Null THEN GroupWalkCountAll(b, c, i + 1, groupCounter, map)
  ELSE LET j == SequenceEnd(c, i)
           currentSequence == i..j
       IN IF Cardinality(currentSequence) >= 2
          THEN GroupWalkCountAll(b, c, j + 1, groupCounter + 1,
                         [idx \in (DOMAIN map) \cup currentSequence |->
                            IF idx \in currentSequence THEN groupCounter
                            ELSE map[idx]])
          ELSE GroupWalkCountAll(b, c, j + 1, groupCounter + 1, map)

RECURSIVE GroupWalk(_, _, _, _, _)
GroupWalk(b, c, i, groupCounter, map) ==
  IF i >= 20 THEN map
  ELSE IF b[i] = Null THEN GroupWalk(b, c, i + 1, groupCounter, map)
  ELSE LET j == SequenceEnd(c, i)
           currentSequence == i..j
       IN IF Cardinality(currentSequence) >= 2
          THEN GroupWalk(b, c, j + 1, groupCounter + 1,
                         [idx \in (DOMAIN map) \cup currentSequence |->
                            IF idx \in currentSequence THEN groupCounter
                            ELSE map[idx]])
          ELSE GroupWalk(b, c, j + 1, groupCounter, map)

EmptyMap == [i \in {} |-> 0]

getScoringGroups(b) == GroupWalk(b, GroupFinalConnects(b), 0, 0, EmptyMap)

\* ------------------------------------------------------ src/utils.ts
\* the comparison current < next
isAscendingOrderStrict(current, next) ==
  IF current = Joker \/ next = Joker THEN TRUE
  ELSE current < next

isAscendingOrder(current, next) ==
  IF current = Joker \/ next = Joker THEN TRUE
  ELSE current <= next

\* the inner while of the adjacent-pair walk: the index of the last cell
RECURSIVE UtilsRunEnd(_, _)
UtilsRunEnd(b, i) ==
  IF i + 1 < 20 /\ b[i + 1] # Null /\ isAscendingOrder(b[i], b[i + 1])
  THEN UtilsRunEnd(b, i + 1)
  ELSE i

RECURSIVE UtilsScoreWalk(_, _, _)
UtilsScoreWalk(b, i, total) ==
  IF i >= 20 THEN total
  ELSE IF b[i] = Null THEN UtilsScoreWalk(b, i + 1, total)
  ELSE LET j == UtilsRunEnd(b, i)
           runLength == 1 + (j - i)
       IN UtilsScoreWalk(b, j + 1, total + SCORE_TABLE[Min(runLength, 20)])

UtilsCalculatePlayerScore(b) == UtilsScoreWalk(b, 0, 0)

RECURSIVE UtilsGroupWalk(_, _, _, _)
UtilsGroupWalk(b, i, groupCounter, map) ==
  IF i >= 20 THEN map
  ELSE IF b[i] = Null THEN UtilsGroupWalk(b, i + 1, groupCounter, map)
  ELSE LET tempI == UtilsRunEnd(b, i)
           currentSequence == i..tempI
           runLength == 1 + (tempI - i)
       IN IF runLength >= 2
          THEN UtilsGroupWalk(b, tempI + 1, groupCounter + 1,
                              [idx \in (DOMAIN map) \cup currentSequence |->
                                 IF idx \in currentSequence THEN groupCounter
                                 ELSE map[idx]])
          ELSE UtilsGroupWalk(b, tempI + 1, groupCounter, map)

UtilsGetScoringGroups(b) == UtilsGroupWalk(b, 0, 0, EmptyMap)

UtilsIdle ==
  /\ utilsScoreDone = FALSE
  /\ utilsScore = 0
  /\ utilsGroupsDone = FALSE
  /\ utilsGroupMap = EmptyMap

\* ------------------------------------------------------ restoreBoardArray
\* The stored board is an array (elements 0..length-1, Undefined for a hole
\* or an undefined element), an object (property names to values), null,
\* undefined, a number or a string.
RawValue == Cell \cup {Undefined}

\* the decimal names of the indices 0..24
IndexName ==
  <<"0", "1", "2", "3", "4", "5", "6", "7", "8", "9", "10", "11", "12",
    "13", "14", "15", "16", "17", "18", "19", "20", "21", "22", "23", "24">>

\* property names in the order of Object.keys: index names ascending, then
\* a negative number and a name that is no number
KeyOrder == IndexName \o <<"-1", "x">>

\* the names an arbitrary stored object is built from: indices inside and
\* outside 0..19, a negative number, a name that is no number
Keys == {"0", "19", "20", "-1", "x"}

parseInt(key) ==
  IF \E n \in DOMAIN IndexName : IndexName[n] = key
  THEN (CHOOSE n \in DOMAIN IndexName : IndexName[n] = key) - 1
  ELSE IF key = "-1" THEN -1
  ELSE NaN

isNaN(index) == index = NaN

IsArray(r) == r.kind = "array"
Truthy(r) == r.kind \notin {"null", "undefined"}
TypeofObject(r) == r.kind \in {"array", "object", "null"}

\* restoredBoard[index] = value (an assignment past the end grows the array)
SetAt(a, index, value) == (index :> value) @@ a

EmptyBoard == [i \in Idx |-> Null]

\* board.forEach without the test index < 20
RECURSIVE RestoreArrayNoBound(_, _)
RestoreArrayNoBound(arr, n) ==
  IF n = 0 THEN EmptyBoard
  ELSE LET restoredBoard == RestoreArrayNoBound(arr, n - 1)
           index == n - 1
           value == arr[index]
       IN IF value # Undefined /\ value # Null
          THEN SetAt(restoredBoard, index, value)
          ELSE restoredBoard

\* board.forEach over the first n elements of the array
RECURSIVE RestoreArray(_, _)
RestoreArray(arr, n) ==
  IF n = 0 THEN EmptyBoard
  ELSE LET restoredBoard == RestoreArray(arr, n - 1)
           index == n - 1
           value == arr[index]
       IN IF index < 20 /\ value # Undefined /\ value # Null
          THEN SetAt(restoredBoard, index, value)
          ELSE restoredBoard

\* Object.keys(board).forEach with the test index > 0
RECURSIVE RestoreObjectFromOne(_, _)
RestoreObjectFromOne(obj, n) ==
  IF n = 0 THEN EmptyBoard
  ELSE LET restoredBoard == RestoreObjectFromOne(obj, n - 1)
           key == KeyOrder[n]
       IN IF key \notin DOMAIN obj THEN restoredBoard
          ELSE LET index == parseInt(key)
                   value == obj[key]
               IN IF /\ ~isNaN(index) /\ index > 0 /\ index < 20
                     /\ value # Undefined /\ value # Null
                  THEN SetAt(restoredBoard, index, value)
                  ELSE restoredBoard

\* Object.keys(board).forEach over the first n names of KeyOrder
RECURSIVE RestoreObject(_, _)
RestoreObject(obj, n) ==
  IF n = 0 THEN EmptyBoard
  ELSE LET restoredBoard == RestoreObject(obj, n - 1)
           key == KeyOrder[n]
       IN IF key \notin DOMAIN obj THEN restoredBoard
          ELSE LET index == parseInt(key)
                   value == obj[key]
               IN IF /\ ~isNaN(index) /\ index >= 0 /\ index < 20
                     /\ value # Undefined /\ value # Null
                  THEN SetAt(restoredBoard, index, value)
                  ELSE restoredBoard

restoreBoardArray(r) ==
  IF IsArray(r) THEN RestoreArray(r.arr, Cardinality(DOMAIN r.arr))
  ELSE IF Truthy(r) /\ TypeofObject(r) THEN RestoreObject(r.obj, Len(KeyOrder))
  ELSE EmptyBoard

\* ------------------------------------------------------------ the boards
MakeBoard(o, p, l, r) ==
  [i \in Idx |-> IF i < o THEN l
                 ELSE IF i < o + Window THEN p[i - o + 1]
                 ELSE r]

\* a window of freely chosen cells at the left edge, at the right edge or
\* inside the board; the rest of the board is empty or holds one value
Patterns == [1..Window -> Cell]

BoardsOf(p, f) ==
  {MakeBoard(0, p, Null, f),
   MakeBoard(BoardLen - Window, p, f, Null),
   MakeBoard(8, p, Null, Null)}

NoConnects == [i \in Idx |-> FALSE]

\* the stored boards
MakeArray(len, p, f) ==
  [i \in 0..(len - 1) |->
     IF i >= len - ArrayFree THEN p[i - (len - ArrayFree) + 1] ELSE f]

ArrayInput(a) == [kind |-> "array", arr |-> a, obj |-> EmptyMap]
ObjectInput(o) == [kind |-> "object", arr |-> EmptyMap, obj |-> o]
OtherInput(k) == [kind |-> k, arr |-> EmptyMap, obj |-> EmptyMap]
NoInput == OtherInput("undefined")

\* the object stored for an array: one property, named by its index, for
\* every element that is neither null nor undefined
FirebaseObject(arr) ==
  LET present == {i \in DOMAIN arr : arr[i] # Null /\ arr[i] # Undefined}
  IN [key \in {IndexName[i + 1] : i \in present} |-> arr[parseInt(key)]]

\* ------------------------------------ checkGameEnd, calculateFinalRanking
\* A team of the game data: its number, the number of its players (Undefined
\* when the players field is no array), its stored board and its score.
MaxRounds == 20

\* Array.isArray(t.players) ? t.players : []
SafePlayers(t) == IF t.players = Undefined THEN 0 ELSE t.players

\* Array.isArray(gameData.teams) ? gameData.teams : []
SafeTeams(g) == IF g.teamsIsArray THEN g.teams ELSE <<>>

\* safeTeams.filter(t => players.length > 0)
TeamsWithPlayers(g) ==
  SelectSeq(SafeTeams(g), LAMBDA t : SafePlayers(t) > 0)

\* the inner loop: board[j] === null for some j < board.length
BoardHasNull(b) == \E j \in DOMAIN b : b[j] = Null

\* the outer loop from team i on: allBoardsFull
RECURSIVE AllBoardsFullFrom(_, _)
AllBoardsFullFrom(ts, i) ==
  IF i > Len(ts) THEN TRUE
  ELSE IF BoardHasNull(restoreBoardArray(ts[i].board)) THEN FALSE
  ELSE AllBoardsFullFrom(ts, i + 1)

\* the test currentRound > 20
checkGameEndAfterRound(g) ==
  IF g.currentRound > MaxRounds THEN TRUE
  ELSE AllBoardsFullFrom(TeamsWithPlayers(g), 1)

checkGameEnd(g) ==
  IF g.currentRound >= MaxRounds THEN TRUE
  ELSE AllBoardsFullFrom(TeamsWithPlayers(g), 1)

\* .map(t => ({teamNumber, score, players}))
RankingEntry(t) ==
  [teamNumber |-> t.teamNumber, score |-> t.score, players |-> SafePlayers(t)]

\* an insertion that puts e before the entries of equal score
RECURSIVE InsertBeforeEqual(_, _)
InsertBeforeEqual(s, e) ==
  IF s = <<>> THEN <<e>>
  ELSE LET last == s[Len(s)]
       IN IF e.score - last.score >= 0
          THEN InsertBeforeEqual(SubSeq(s, 1, Len(s) - 1), e) \o <<last>>
          ELSE s \o <<e>>

\* e is put behind every entry a of s with b.score - a.score <= 0
RECURSIVE InsertByScore(_, _)
InsertByScore(s, e) ==
  IF s = <<>> THEN <<e>>
  ELSE LET last == s[Len(s)]
       IN IF e.score - last.score > 0
          THEN InsertByScore(SubSeq(s, 1, Len(s) - 1), e) \o <<last>>
          ELSE s \o <<e>>

\* teamsWithPlayers.sort((a, b) => b.score - a.score): a stable sort, an
\* element moves in front of those of smaller score only
RECURSIVE SortByScore(_, _)
SortByScore(s, n) ==
  IF n = 0 THEN <<>>
  ELSE InsertByScore(SortByScore(s, n - 1), s[n])

calculateFinalRanking(g) ==
  LET ts == TeamsWithPlayers(g)
      entries == [k \in 1..Len(ts) |-> RankingEntry(ts[k])]
      sorted == SortByScore(entries, Len(entries))
  IN [index \in 1..Len(sorted) |->
        [rank |-> index, teamNumber |-> sorted[index].teamNumber,
         score |-> sorted[index].score, players |-> sorted[index].players]]

FullBoard == [i \in Idx |-> 1]
HoleBoard(h) == [FullBoard EXCEPT ![h] = Null]

\* stored boards of a team: full or with one empty slot, as an array with
\* an undefined element or as the object of its index properties
EndBoards ==
  {ArrayInput(FullBoard),
   ArrayInput([FullBoard EXCEPT ![0] = Undefined]),
   ObjectInput(FirebaseObject(FullBoard)),
   ObjectInput(FirebaseObject(HoleBoard(19)))}

EndTeams ==
  [teamNumber : {0}, players : {Undefined, 0, 1}, board : EndBoards,
   score : {0, 1}]

NoGameData == [teamsIsArray |-> FALSE, teams |-> <<>>, currentRound |-> 0]

EndIdle ==
  /\ gameData = NoGameData
  /\ endDone = FALSE
  /\ gameEnd = FALSE
  /\ rankingDone = FALSE
  /\ finalRanking = <<>>

\* ------------------------------------------------- the game of a company
\* The state of one game: the React state `games` of a device, the game the
\* last render handed to the handlers (activeGame), and the copy stored in
\* Firebase.  A team is its number, the number of its players (Undefined
\* when Firebase dropped the empty array), its stored board, its score and
\* hasPlacedCurrentNumber.
NewTeam(n) ==
  [teamNumber |-> n, players |-> 0, board |-> ArrayInput(EmptyBoard),
   score |-> 0, hasPlacedCurrentNumber |-> FALSE]

\* createGame: the new game of two teams
NewGame ==
  [teamsIsArray |-> TRUE, teams |-> <<NewTeam(1), NewTeam(2)>>,
   currentNumber |-> Null, gameStarted |-> FALSE, gameEnded |-> FALSE,
   waitingForPlacements |-> FALSE, currentRound |-> 0, finalRanking |-> <<>>,
   pendingRandomNumber |-> Null]

TeamIds == DOMAIN NewGame.teams

\* teams.filter(players.length > 0).every(t => t.hasPlacedCurrentNumber === true)
AllPlaced(teams) ==
  \A k \in DOMAIN teams :
    SafePlayers(teams[k]) > 0 => teams[k].hasPlacedCurrentNumber

\* board.filter(c => c !== null).length of a restored board
FilledCount(b) == Cardinality({i \in DOMAIN b : b[i] # Null})

\* teamBoard[position], undefined outside the array
CellAt(b, position) == IF position \in DOMAIN b THEN b[position] ELSE Undefined

\* joinTeam on the rendered game a: the new list of games is built from a
joinTeam(a, g, t) ==
  IF t \notin DOMAIN SafeTeams(a) THEN g
  ELSE IF SafePlayers(a.teams[t]) >= 10 THEN g
  ELSE [a EXCEPT !.teams[t].players = SafePlayers(a.teams[t]) + 1]

\* startCompanyGame(mode) with updateGame
startCompanyGame(a, g, mode) ==
  IF \A k \in DOMAIN SafeTeams(a) : SafePlayers(a.teams[k]) = 0 THEN g
  ELSE [g EXCEPT !.gameStarted = TRUE, !.currentRound = 0,
                 !.currentNumber = Null,
                 !.pendingRandomNumber =
                    IF mode = "RANDOM_BOARD" THEN Null ELSE @]

\* teams.map(t => ({...t, hasPlacedCurrentNumber: false, placedBy: null}))
ClearPlaced(teams) ==
  [k \in DOMAIN teams |-> [teams[k] EXCEPT !.hasPlacedCurrentNumber = FALSE]]

selectNumberByHost(a, g, num) ==
  IF a.waitingForPlacements THEN g
  ELSE [g EXCEPT !.currentNumber = num, !.waitingForPlacements = TRUE,
                 !.currentRound = a.currentRound + 1,
                 !.teams = ClearPlaced(SafeTeams(a))]

selectRandomCell(a, g, value) ==
  IF a.waitingForPlacements THEN g
  ELSE [g EXCEPT !.pendingRandomNumber = value]

submitRandomNumber(a, g) ==
  IF a.pendingRandomNumber = Null THEN g
  ELSE IF a.waitingForPlacements THEN g
  ELSE [g EXCEPT !.currentNumber = a.pendingRandomNumber,
                 !.pendingRandomNumber = Null,
                 !.waitingForPlacements = TRUE,
                 !.currentRound = a.currentRound + 1,
                 !.teams = ClearPlaced(SafeTeams(a))]

\* the team of another index after updateGameWithMerge: the board with more
\* filled cells, every other field of the updated team
MergedOtherTeam(existingTeam, updatedTeam) ==
  LET existingBoard == restoreBoardArray(existingTeam.board)
      updatedBoard == restoreBoardArray(updatedTeam.board)
      preservedHasPlaced ==
        existingTeam.hasPlacedCurrentNumber \/ updatedTeam.hasPlacedCurrentNumber
  IN IF FilledCount(existingBoard) > FilledCount(updatedBoard)
     THEN [updatedTeam EXCEPT !.board = ArrayInput(existingBoard),
                              !.hasPlacedCurrentNumber = preservedHasPlaced]
     ELSE [updatedTeam EXCEPT !.hasPlacedCurrentNumber = preservedHasPlaced]

\* updateGameWithMerge(companyName, updates, teamIdx, newBoard) on the state g
updateGameWithMerge(g, updates, teamIdx, newBoard) ==
  LET currentTeams == SafeTeams(g)
      mergedTeams ==
        [idx \in DOMAIN updates.teams |->
           IF idx = teamIdx
           THEN [updates.teams[idx] EXCEPT !.board = ArrayInput(newBoard)]
           ELSE IF idx \in DOMAIN currentTeams
           THEN MergedOtherTeam(currentTeams[idx], updates.teams[idx])
           ELSE updates.teams[idx]]
  IN [g EXCEPT !.teams = mergedTeams,
               !.waitingForPlacements = ~AllPlaced(mergedTeams),
               !.gameEnded = IF updates.gameEnded THEN TRUE ELSE @,
               !.finalRanking =
                  IF updates.gameEnded THEN updates.finalRanking ELSE @]

\* the updates placeNumberInTeam hands to updateGameWithMerge
PlacementUpdates(a, t, newBoard) ==
  LET newTeams ==
        [SafeTeams(a) EXCEPT
           ![t] = [@ EXCEPT !.board = ArrayInput(newBoard),
                            !.score = calculatePlayerScore(newBoard),
                            !.hasPlacedCurrentNumber = TRUE]]
      allPlaced == AllPlaced(newTeams)
      next == [a EXCEPT !.teams = newTeams,
                        !.waitingForPlacements = ~allPlaced]
      ended == allPlaced /\ checkGameEnd(next)
  IN [teams |-> newTeams, gameEnded |-> ended,
      finalRanking |-> IF ended THEN calculateFinalRanking(next) ELSE <<>>]

\* the handler without the test of the target cell
placeNumberInTeamAnyCell(a, g, t, position) ==
  IF t \notin DOMAIN SafeTeams(a) THEN g
  ELSE IF ~a.gameStarted \/ a.gameEnded THEN g
  ELSE IF a.teams[t].hasPlacedCurrentNumber THEN g
  ELSE IF position \notin Idx THEN g
  ELSE IF a.currentNumber = Null THEN g
  ELSE LET teamBoard == restoreBoardArray(a.teams[t].board)
           newBoard == [teamBoard EXCEPT ![position] = a.currentNumber]
       IN updateGameWithMerge(g, PlacementUpdates(a, t, newBoard), t, newBoard)

\* placeNumberInTeam(position) of a player of team t
placeNumberInTeam(a, g, t, position) ==
  IF t \notin DOMAIN SafeTeams(a) THEN g
  ELSE IF ~a.gameStarted \/ a.gameEnded THEN g
  ELSE IF a.teams[t].hasPlacedCurrentNumber THEN g
  ELSE IF CellAt(restoreBoardArray(a.teams[t].board), position) # Null THEN g
  ELSE IF a.currentNumber = Null THEN g
  ELSE LET teamBoard == restoreBoardArray(a.teams[t].board)
           newBoard == [teamBoard EXCEPT ![position] = a.currentNumber]
       IN updateGameWithMerge(g, PlacementUpdates(a, t, newBoard), t, newBoard)

\* the team of index idx after the merge of a Firebase snapshot
MergedSnapshotTeam(localGame, firebaseGame, idx) ==
  LET fbTeam == firebaseGame.teams[idx]
      localTeam == localGame.teams[idx]
      localBoard == restoreBoardArray(localTeam.board)
      fbBoard == restoreBoardArray(fbTeam.board)
      isNewRound == firebaseGame.currentRound > localGame.currentRound
      mergedHasPlaced ==
        IF isNewRound THEN fbTeam.hasPlacedCurrentNumber
        ELSE localTeam.hasPlacedCurrentNumber \/ fbTeam.hasPlacedCurrentNumber
  IN IF FilledCount(localBoard) > FilledCount(fbBoard)
     THEN [fbTeam EXCEPT !.board = ArrayInput(localBoard),
                         !.score = localTeam.score,
                         !.hasPlacedCurrentNumber = mergedHasPlaced]
     ELSE [fbTeam EXCEPT !.hasPlacedCurrentNumber = mergedHasPlaced]

\* the callback of subscribeToGames: the Firebase game merged with the local one
MergeSnapshot(localGame, firebaseGame) ==
  LET mergedTeams ==
        [idx \in DOMAIN SafeTeams(firebaseGame) |->
           IF idx \notin DOMAIN SafeTeams(localGame)
           THEN firebaseGame.teams[idx]
           ELSE MergedSnapshotTeam(localGame, firebaseGame, idx)]
  IN [firebaseGame EXCEPT
        !.teams = mergedTeams,
        !.waitingForPlacements = IF AllPlaced(mergedTeams) THEN FALSE ELSE @]

\* what Firebase keeps of a board: the properties of its filled cells, and
\* nothing of a board without a filled cell
StoredBoard(r) ==
  IF ~IsArray(r) THEN r
  ELSE IF \A i \in DOMAIN r.arr : r.arr[i] \in {Null, Undefined}
  THEN OtherInput("undefined")
  ELSE ObjectInput(FirebaseObject(r.arr))

\* saveGames(games): set() drops null values and empty arrays
Stored(g) ==
  [g EXCEPT !.teams =
     [k \in DOMAIN g.teams |->
        [g.teams[k] EXCEPT !.board = StoredBoard(@),
                           !.players = IF @ = 0 THEN Undefined ELSE @]]]

GameIdle ==
  /\ games = NewGame
  /\ activeGame = NewGame
  /\ firebase = NewGame
  /\ session = [role |-> "NONE", myTeamId |-> 0]
  /\ isFirebaseUpdate = FALSE
  /\ recentLocalChange = FALSE
  /\ lastCall = "none"

ExtraIdle == EndIdle /\ UtilsIdle /\ GameIdle

\* no call is executed step by step
WalkIdle ==
  /\ pc = "idle"
  /\ walkI = 0
  /\ walkRun = 0
  /\ walkSequence = <<>>
  /\ walkCounter = 0

Init ==
  /\ \E p \in Patterns, f \in Fill : board \in BoardsOf(p, f)
  /\ scoreDone = FALSE
  /\ totalScore = 0
  /\ connects = NoConnects
  /\ connectsLog = <<>>
  /\ groupsDone = FALSE
  /\ groupMap = EmptyMap
  /\ groupConnects = NoConnects
  /\ raw = NoInput
  /\ restoreDone = FALSE
  /\ restored = EmptyMap
  /\ WalkIdle
  /\ ExtraIdle

\* a call that blanks the wildcards of the board it was given
ScoreCallWritingBoard ==
  /\ ~scoreDone
  /\ scoreDone' = TRUE
  /\ LET log == Step2Log(board, 20)
     IN /\ connectsLog' = log
        /\ connects' = log[21]
        /\ totalScore' = ScoreWalk(board, log[21], 0, 0)
  /\ board' = [i \in DOMAIN board |-> IF board[i] = Joker THEN Null ELSE board[i]]
  /\ UNCHANGED <<groupsDone, groupMap, groupConnects, restoreVars, walkVars,
                 extraVars>>

\* a call of calculatePlayerScore(board): totalScore is its return value,
\* connects and connectsLog record the call-local vector (final, and after
\* Step 1 and each Step 2 iteration)
ScoreCall ==
  /\ ~scoreDone
  /\ scoreDone' = TRUE
  /\ LET log == Step2Log(board, 20)
     IN /\ connectsLog' = log
        /\ connects' = log[21]
        /\ totalScore' = ScoreWalk(board, log[21], 0, 0)
  /\ UNCHANGED <<board, groupsDone, groupMap, groupConnects,
                 restoreVars, walkVars,
                 extraVars>>

\* a call of getScoringGroups(board): groupMap is its return value,
\* groupConnects records the call-local vector
GroupsCall ==
  /\ ~groupsDone
  /\ groupsDone' = TRUE
  /\ LET c == GroupFinalConnects(board)
     IN /\ groupConnects' = c
        /\ groupMap' = GroupWalk(board, c, 0, 0, EmptyMap)
  /\ UNCHANGED <<board, scoreDone, totalScore, connects, connectsLog,
                 restoreVars, walkVars,
                 extraVars>>

Next == ScoreCall \/ GroupsCall

Spec == Init /\ [][Next]_vars

\* ------------------------------------------- the calls, loop step by loop step
\* One call of calculatePlayerScore or of getScoringGroups on a board.  Steps
\* 1 and 2 (for loops with constant bounds) are one step; the while loops of
\* Step 3 advance one test of a loop condition at a time.  walkI, walkRun,
\* walkSequence and walkCounter are the i, runLength, currentSequence and
\* groupCounter of Step 3.
InitWalk ==
  /\ \E p \in Patterns, f \in Fill : board \in BoardsOf(p, f)
  /\ pc \in {"score", "groups"}
  /\ walkI = 0
  /\ walkRun = 0
  /\ walkSequence = <<>>
  /\ walkCounter = 0
  /\ scoreDone = FALSE
  /\ totalScore = 0
  /\ connects = NoConnects
  /\ connectsLog = <<>>
  /\ groupsDone = FALSE
  /\ groupMap = EmptyMap
  /\ groupConnects = NoConnects
  /\ raw = NoInput
  /\ restoreDone = FALSE
  /\ restored = EmptyMap
  /\ ExtraIdle

ScoreSteps12 ==
  /\ pc = "score"
  /\ connects' = FinalConnects(board)
  /\ totalScore' = 0
  /\ walkI' = 0
  /\ pc' = "scoreOuter"
  /\ UNCHANGED <<board, scoreDone, connectsLog, groupsDone, groupMap,
                 groupConnects, restoreVars, walkRun, walkSequence,
                 walkCounter,
                 extraVars>>

ScoreSkipEmpty ==
  /\ pc = "scoreOuter"
  /\ walkI < 20
  /\ board[walkI] = Null
  /\ walkI' = walkI + 1
  /\ UNCHANGED <<board, scoreDone, totalScore, connects, connectsLog,
                 groupsDone, groupMap, groupConnects, restoreVars, pc,
                 walkRun, walkSequence, walkCounter,
                 extraVars>>

ScoreStartRun ==
  /\ pc = "scoreOuter"
  /\ walkI < 20
  /\ board[walkI] # Null
  /\ walkRun' = 1
  /\ pc' = "scoreInner"
  /\ UNCHANGED <<board, scoreDone, totalScore, connects, connectsLog,
                 groupsDone, groupMap, groupConnects, restoreVars, walkI,
                 walkSequence, walkCounter,
                 extraVars>>

ScoreExtendRun ==
  /\ pc = "scoreInner"
  /\ walkI < 19 /\ connects[walkI]
  /\ walkRun' = walkRun + 1
  /\ walkI' = walkI + 1
  /\ UNCHANGED <<board, scoreDone, totalScore, connects, connectsLog,
                 groupsDone, groupMap, groupConnects, restoreVars, pc,
                 walkSequence, walkCounter,
                 extraVars>>

\* the end of a run without the final i++
ScoreCloseRunNoAdvance ==
  /\ pc = "scoreInner"
  /\ ~(walkI < 19 /\ connects[walkI])
  /\ totalScore' = totalScore + SCORE_TABLE[Min(walkRun, 20)]
  /\ pc' = "scoreOuter"
  /\ UNCHANGED <<board, scoreDone, connects, connectsLog, groupsDone, groupMap,
                 groupConnects, restoreVars, walkI, walkRun, walkSequence,
                 walkCounter,
                 extraVars>>

ScoreCloseRun ==
  /\ pc = "scoreInner"
  /\ ~(walkI < 19 /\ connects[walkI])
  /\ totalScore' = totalScore + SCORE_TABLE[Min(walkRun, 20)]
  /\ walkI' = walkI + 1
  /\ pc' = "scoreOuter"
  /\ UNCHANGED <<board, scoreDone, connects, connectsLog, groupsDone, groupMap,
                 groupConnects, restoreVars, walkRun, walkSequence,
                 walkCounter,
                 extraVars>>

ScoreReturn ==
  /\ pc = "scoreOuter"
  /\ walkI >= 20
  /\ scoreDone' = TRUE
  /\ pc' = "done"
  /\ UNCHANGED <<board, totalScore, connects, connectsLog, groupsDone,
                 groupMap, groupConnects, restoreVars, walkI, walkRun,
                 walkSequence, walkCounter,
                 extraVars>>

GroupsSteps12 ==
  /\ pc = "groups"
  /\ groupConnects' = GroupFinalConnects(board)
  /\ groupMap' = EmptyMap
  /\ walkCounter' = 0
  /\ walkI' = 0
  /\ pc' = "groupsOuter"
  /\ UNCHANGED <<board, scoreDone, totalScore, connects, connectsLog,
                 groupsDone, restoreVars, walkRun, walkSequence,
                 extraVars>>

GroupsSkipEmpty ==
  /\ pc = "groupsOuter"
  /\ walkI < 20
  /\ board[walkI] = Null
  /\ walkI' = walkI + 1
  /\ UNCHANGED <<board, scoreDone, totalScore, connects, connectsLog,
                 groupsDone, groupMap, groupConnects, restoreVars, pc,
                 walkRun, walkSequence, walkCounter,
                 extraVars>>

GroupsStartSequence ==
  /\ pc = "groupsOuter"
  /\ walkI < 20
  /\ board[walkI] # Null
  /\ walkSequence' = <<walkI>>
  /\ pc' = "groupsInner"
  /\ UNCHANGED <<board, scoreDone, totalScore, connects, connectsLog,
                 groupsDone, groupMap, groupConnects, restoreVars, walkI,
                 walkRun, walkCounter,
                 extraVars>>

GroupsExtendSequence ==
  /\ pc = "groupsInner"
  /\ walkI < 19 /\ groupConnects[walkI]
  /\ walkI' = walkI + 1
  /\ walkSequence' = Append(walkSequence, walkI + 1)
  /\ UNCHANGED <<board, scoreDone, totalScore, connects, connectsLog,
                 groupsDone, groupMap, groupConnects, restoreVars, pc,
                 walkRun, walkCounter,
                 extraVars>>

GroupsCloseSequence ==
  /\ pc = "groupsInner"
  /\ ~(walkI < 19 /\ groupConnects[walkI])
  /\ IF Len(walkSequence) >= 2
     THEN /\ groupMap' =
               [idx \in {walkSequence[n] : n \in DOMAIN walkSequence} |->
                  walkCounter] @@ groupMap
          /\ walkCounter' = walkCounter + 1
     ELSE UNCHANGED <<groupMap, walkCounter>>
  /\ walkI' = walkI + 1
  /\ pc' = "groupsOuter"
  /\ UNCHANGED <<board, scoreDone, totalScore, connects, connectsLog,
                 groupsDone, groupConnects, restoreVars, walkRun,
                 walkSequence,
                 extraVars>>

GroupsReturn ==
  /\ pc = "groupsOuter"
  /\ walkI >= 20
  /\ groupsDone' = TRUE
  /\ pc' = "done"
  /\ UNCHANGED <<board, scoreDone, totalScore, connects, connectsLog,
                 groupMap, groupConnects, restoreVars, walkI, walkRun,
                 walkSequence, walkCounter,
                 extraVars>>

NextWalk ==
  \/ ScoreSteps12 \/ ScoreSkipEmpty \/ ScoreStartRun \/ ScoreExtendRun
  \/ ScoreCloseRun \/ ScoreReturn
  \/ GroupsSteps12 \/ GroupsSkipEmpty \/ GroupsStartSequence
  \/ GroupsExtendSequence \/ GroupsCloseSequence \/ GroupsReturn

SpecWalk == InitWalk /\ [][NextWalk]_vars

\* ------------------------------------------ calls on boards of 21.. cells
\* a board of the family followed by n further cells holding x
LongBoard(b, n, x) ==
  [i \in 0..(BoardLen + n - 1) |-> IF i \in Idx THEN b[i] ELSE x]

InitContract ==
  /\ \E p \in Patterns, f \in Fill, n \in 1..MaxExtra, x \in Cell :
       board \in {LongBoard(b, n, x) : b \in BoardsOf(p, f)}
  /\ scoreDone = FALSE
  /\ totalScore = 0
  /\ connects = NoConnects
  /\ connectsLog = <<>>
  /\ groupsDone = FALSE
  /\ groupMap = EmptyMap
  /\ groupConnects = NoConnects
  /\ raw = NoInput
  /\ restoreDone = FALSE
  /\ restored = EmptyMap
  /\ WalkIdle
  /\ ExtraIdle

NextContract == ScoreCall \/ GroupsCall

SpecContract == InitContract /\ [][NextContract]_vars

\* ---------------------------------------------- restoring a stored board
InitRestore ==
  /\ \/ \E len \in 0..(BoardLen + MaxExtra), p \in [1..ArrayFree -> RawValue],
           f \in RawValue : raw = ArrayInput(MakeArray(len, p, f))
     \/ \E K \in SUBSET Keys : \E o \in [K -> RawValue] : raw = ObjectInput(o)
     \/ \E k \in {"null", "undefined", "number", "string"} : raw = OtherInput(k)
  /\ restoreDone = FALSE
  /\ restored = EmptyMap
  /\ board = EmptyBoard
  /\ scoreDone = FALSE
  /\ totalScore = 0
  /\ connects = NoConnects
  /\ connectsLog = <<>>
  /\ groupsDone = FALSE
  /\ groupMap = EmptyMap
  /\ groupConnects = NoConnects
  /\ WalkIdle
  /\ ExtraIdle

\* a call of restoreBoardArray(raw): restored is its return value
Restore ==
  /\ ~restoreDone
  /\ restoreDone' = TRUE
  /\ restored' = restoreBoardArray(raw)
  /\ UNCHANGED <<raw, board, scoreDone, totalScore, connects, connectsLog,
                 groupsDone, groupMap, groupConnects, walkVars,
                 extraVars>>

NextRestore == Restore

SpecRestore == InitRestore /\ [][NextRestore]_vars

\* --------------------------------- the end of the game and the ranking
scoreVars == <<board, scoreDone, totalScore, connects, connectsLog,
               groupsDone, groupMap, groupConnects>>

\* no board is scored
ScoreIdle ==
  /\ board = EmptyBoard
  /\ scoreDone = FALSE
  /\ totalScore = 0
  /\ connects = NoConnects
  /\ connectsLog = <<>>
  /\ groupsDone = FALSE
  /\ groupMap = EmptyMap
  /\ groupConnects = NoConnects

\* no stored board is restored
RestoreIdle ==
  /\ raw = NoInput
  /\ restoreDone = FALSE
  /\ restored = EmptyMap

EndTeamCounts == 0..3
EndRounds == {MaxRounds - 1, MaxRounds}

\* game data of up to three teams, or with a teams field that is no array
InitEnd ==
  /\ \E r \in EndRounds :
       \/ gameData = [teamsIsArray |-> FALSE, teams |-> <<>>,
                      currentRound |-> r]
       \/ \E n \in EndTeamCounts : \E ts \in [1..n -> EndTeams] :
            gameData = [teamsIsArray |-> TRUE,
                        teams |-> [k \in 1..n |->
                                     [ts[k] EXCEPT !.teamNumber = k]],
                        currentRound |-> r]
  /\ endDone = FALSE
  /\ gameEnd = FALSE
  /\ rankingDone = FALSE
  /\ finalRanking = <<>>
  /\ ScoreIdle
  /\ RestoreIdle
  /\ WalkIdle
  /\ UtilsIdle
  /\ GameIdle

\* a call of checkGameEnd(gameData): gameEnd is its return value
CheckGameEndCall ==
  /\ ~endDone
  /\ endDone' = TRUE
  /\ gameEnd' = checkGameEnd(gameData)
  /\ UNCHANGED <<gameData, rankingDone, finalRanking, scoreVars, restoreVars,
                 walkVars, utilsVars, gameVars>>

\* a call of calculateFinalRanking(gameData): finalRanking is its return value
FinalRankingCall ==
  /\ ~rankingDone
  /\ rankingDone' = TRUE
  /\ finalRanking' = calculateFinalRanking(gameData)
  /\ UNCHANGED <<gameData, endDone, gameEnd, scoreVars, restoreVars,
                 walkVars, utilsVars, gameVars>>

NextEnd == CheckGameEndCall \/ FinalRankingCall

SpecEnd == InitEnd /\ [][NextEnd]_vars

\* ------------------------------------------------------- playing a game
\* One device (the host's, a player's or one that has not joined yet) with
\* its state `games`, the game of its last render and its debounce of
\* Firebase snapshots; the other devices act on the stored copy.
IssuedNumbers == {1, Joker}
RandomNumbers == {MaxVal}
Positions == {0, 1, BoardLen}
Modes == {"CONTROL", "RANDOM_BOARD"}
JoinedCounts == {0, 1}

\* the rounds that are played: the first and the last of a game
PlayedRounds == {1, MaxRounds}

RoundOpen(r) == r + 1 \in PlayedRounds

\* a board after MaxRounds - 1 placements: cell i holds the number i
LateBoard == [i \in Idx |-> IF i = 0 THEN Null ELSE i]

LateTeam(n) ==
  [teamNumber |-> n, players |-> 1, board |-> ArrayInput(LateBoard),
   score |-> calculatePlayerScore(LateBoard), hasPlacedCurrentNumber |-> TRUE]

\* a game in which every team with players has placed MaxRounds - 1 numbers;
\* the second team has players or has none
LateGame(second) ==
  [NewGame EXCEPT
     !.teams = <<LateTeam(1), IF second THEN LateTeam(2) ELSE NewTeam(2)>>,
     !.currentNumber = BoardLen - 1,
     !.gameStarted = TRUE,
     !.currentRound = MaxRounds - 1]

Host == [role |-> "HOST", myTeamId |-> 0]
Visitor == [role |-> "NONE", myTeamId |-> 0]
PlayerOf(t) == [role |-> "PLAYER", myTeamId |-> t]

InitGame ==
  /\ \/ games = NewGame /\ session \in {Host, Visitor}
     \/ \E second \in BOOLEAN :
          /\ games = LateGame(second)
          /\ session \in {Host, Visitor, PlayerOf(1)}
  /\ activeGame = games
  /\ firebase = Stored(games)
  /\ isFirebaseUpdate = FALSE
  /\ recentLocalChange = FALSE
  /\ lastCall = "none"
  /\ ScoreIdle
  /\ RestoreIdle
  /\ WalkIdle
  /\ EndIdle
  /\ UtilsIdle

otherVars == <<scoreVars, restoreVars, walkVars, endVars, utilsVars>>

\* setGames with the result g of a handler of this device.  A handler that
\* returned early changes nothing.  Otherwise the update is rendered before
\* the next event, and the effect that follows the render saves the games
\* to Firebase and stamps the local change, unless a snapshot was merged
\* since the last render.  stamped: the handler itself stamped the change.
Handled(g, stamped) ==
  /\ games' = g
  /\ IF g = games
     THEN UNCHANGED <<activeGame, firebase, isFirebaseUpdate,
                      recentLocalChange>>
     ELSE /\ activeGame' = g
          /\ isFirebaseUpdate' = FALSE
          /\ IF isFirebaseUpdate
             THEN /\ firebase' = firebase
                  /\ recentLocalChange' = (stamped \/ recentLocalChange)
             ELSE /\ firebase' = Stored(g)
                  /\ recentLocalChange' = TRUE

\* joinTeam(gameId, t - 1, playerName) on a device that has not joined
JoinTeam(t) ==
  /\ session.role = "NONE"
  /\ SafePlayers(activeGame.teams[t]) + 1 \in JoinedCounts
  /\ Handled(joinTeam(activeGame, games, t), FALSE)
  /\ session' = PlayerOf(t)
  /\ lastCall' = "joinTeam"
  /\ UNCHANGED otherVars

\* the host's start button, rendered while the game has not started
StartCompanyGame(mode) ==
  /\ session.role = "HOST"
  /\ ~activeGame.gameStarted
  /\ Handled(startCompanyGame(activeGame, games, mode), FALSE)
  /\ lastCall' = "startCompanyGame"
  /\ UNCHANGED <<session, otherVars>>

\* the host's number controls are rendered while the game is played
HostControls(a) ==
  a.gameStarted /\ ~a.gameEnded /\ RoundOpen(a.currentRound)

SelectNumberByHost(num) ==
  /\ session.role = "HOST"
  /\ HostControls(activeGame)
  /\ Handled(selectNumberByHost(activeGame, games, num), FALSE)
  /\ lastCall' = "selectNumberByHost"
  /\ UNCHANGED <<session, otherVars>>

SelectRandomCell(value) ==
  /\ session.role = "HOST"
  /\ HostControls(activeGame)
  /\ Handled(selectRandomCell(activeGame, games, value), FALSE)
  /\ lastCall' = "selectRandomCell"
  /\ UNCHANGED <<session, otherVars>>

SubmitRandomNumber ==
  /\ session.role = "HOST"
  /\ HostControls(activeGame)
  /\ Handled(submitRandomNumber(activeGame, games), FALSE)
  /\ lastCall' = "submitRandomNumber"
  /\ UNCHANGED <<session, otherVars>>

\* placeNumberInTeam(position) on a player's device; updateGameWithMerge
\* stamps the local change
PlaceNumberInTeam(position) ==
  /\ session.role = "PLAYER"
  /\ Handled(placeNumberInTeam(activeGame, games, session.myTeamId, position),
             TRUE)
  /\ lastCall' = "placeNumberInTeam"
  /\ UNCHANGED <<session, otherVars>>

\* the render of the games a snapshot was merged into; its effect saves
\* nothing
Render ==
  /\ isFirebaseUpdate
  /\ activeGame' = games
  /\ isFirebaseUpdate' = FALSE
  /\ UNCHANGED <<games, firebase, session, recentLocalChange, lastCall,
                 otherVars>>

\* LOCAL_CHANGE_DEBOUNCE has passed since the last local change
DebounceOver ==
  /\ recentLocalChange
  /\ recentLocalChange' = FALSE
  /\ UNCHANGED <<games, activeGame, firebase, session, isFirebaseUpdate,
                 lastCall, otherVars>>

\* the callback of subscribeToGames merges the stored copy into the games;
\* the render is scheduled
FirebaseSnapshot ==
  /\ ~recentLocalChange
  /\ MergeSnapshot(games, firebase) # games
  /\ games' = MergeSnapshot(games, firebase)
  /\ isFirebaseUpdate' = TRUE
  /\ lastCall' = "snapshot"
  /\ UNCHANGED <<activeGame, firebase, session, recentLocalChange, otherVars>>

\* the same handlers on another device that renders the stored copy and
\* saves its change at once
RemoteJoin(t) ==
  /\ SafePlayers(firebase.teams[t]) + 1 \in JoinedCounts
  /\ firebase' = Stored(joinTeam(firebase, firebase, t))
  /\ UNCHANGED <<games, activeGame, session, isFirebaseUpdate,
                 recentLocalChange, lastCall, otherVars>>

RemoteStart(mode) ==
  /\ session.role # "HOST"
  /\ ~firebase.gameStarted
  /\ firebase' = Stored(startCompanyGame(firebase, firebase, mode))
  /\ UNCHANGED <<games, activeGame, session, isFirebaseUpdate,
                 recentLocalChange, lastCall, otherVars>>

RemoteSelect(num) ==
  /\ session.role # "HOST"
  /\ HostControls(firebase)
  /\ firebase' = Stored(selectNumberByHost(firebase, firebase, num))
  /\ UNCHANGED <<games, activeGame, session, isFirebaseUpdate,
                 recentLocalChange, lastCall, otherVars>>

\* a placement on another device, by a member of any team with players
RemotePlace(t, position) ==
  /\ SafePlayers(firebase.teams[t]) > 0
  /\ firebase' = Stored(placeNumberInTeam(firebase, firebase, t, position))
  /\ UNCHANGED <<games, activeGame, session, isFirebaseUpdate,
                 recentLocalChange, lastCall, otherVars>>

NextGame ==
  \/ \E t \in TeamIds : JoinTeam(t)
  \/ \E mode \in Modes : StartCompanyGame(mode)
  \/ \E num \in IssuedNumbers : SelectNumberByHost(num)
  \/ \E value \in RandomNumbers : SelectRandomCell(value)
  \/ SubmitRandomNumber
  \/ \E position \in Positions : PlaceNumberInTeam(position)
  \/ Render
  \/ DebounceOver
  \/ FirebaseSnapshot
  \/ \E t \in TeamIds : RemoteJoin(t)
  \/ \E mode \in Modes : RemoteStart(mode)
  \/ \E num \in IssuedNumbers : RemoteSelect(num)
  \/ \E t \in TeamIds, position \in Positions : RemotePlace(t, position)

SpecGame == InitGame /\ [][NextGame]_vars

\* ------------------------------------------------ vocabulary of the claims
Filled(b) == {i \in Idx : b[i] # Null}
IsNumeric(v) == v # Null /\ v # Joker

\* the maximal run of cells linked by the vector c around cell i
RunFirst(c, i) ==
  LET S == {a \in 0..i : a = 0 \/ ~c[a - 1]}
  IN CHOOSE a \in S : \A x \in S : x <= a
RunLast(c, i) ==
  LET S == {e \in i..19 : e = 19 \/ ~c[e]}
  IN CHOOSE e \in S : \A x \in S : e <= x

\* the maximal runs <<first, last>> of the filled cells
RunsOf(b, c) == {<<RunFirst(c, i), RunLast(c, i)>> : i \in Filled(b)}

RunLen(r) == r[2] - r[1] + 1

\* the table as the specification states it
StatedTable ==
  <<0, 0, 1, 3, 5, 7, 9, 11, 15, 20, 25, 30, 35, 40, 50, 60, 70, 85, 100, 150, 300>>

StatedScore(n) == StatedTable[Min(n, 20) + 1]

RECURSIVE SumRuns(_)
SumRuns(S) ==
  IF S = {} THEN 0
  ELSE LET r == CHOOSE x \in S : TRUE
       IN StatedScore(RunLen(r)) + SumRuns(S \ {r})

\* the groups of a group map: for each id the set of indices carrying it
GroupIds(m) == {m[i] : i \in DOMAIN m}
GroupOf(m, g) == {i \in DOMAIN m : m[i] = g}

RECURSIVE SumGroups(_, _)
SumGroups(m, G) ==
  IF G = {} THEN 0
  ELSE LET g == CHOOSE x \in G : TRUE
       IN StatedScore(Cardinality(GroupOf(m, g))) + SumGroups(m, G \ {g})

\* C1: the score is the sum, over the maximal runs of the connects vector,
\* of the table entry for min(run length, 20); empty cells lie in no run and
\* every filled cell lies in exactly one run.
C1_ScoreIsSumOverRuns ==
  scoreDone =>
    LET runs == RunsOf(board, connects)
    IN /\ totalScore = SumRuns(runs)
       /\ \A i \in Idx :
            Cardinality({r \in runs : i \in r[1]..r[2]})
              = IF board[i] = Null THEN 0 ELSE 1

C1_Witness ==
  /\ scoreDone
  /\ totalScore > 0
  /\ \E i \in Idx : board[i] = Null
  /\ \E r1, r2 \in RunsOf(board, connects) :
       r1 # r2 /\ RunLen(r1) >= 3 /\ RunLen(r2) = 1

\* C2: scoring and grouping use the same connects vector; two cells share a
\* group id exactly when they lie in the same scoring run of length >= 2;
\* the score is the sum of the table entries of the group sizes.
C2_ScoreAndGroupsAgree ==
  (scoreDone /\ groupsDone) =>
    /\ groupConnects = connects
    /\ DOMAIN groupMap =
         {i \in Filled(board) : RunLast(connects, i) > RunFirst(connects, i)}
    /\ \A i \in DOMAIN groupMap :
         {j \in DOMAIN groupMap : groupMap[j] = groupMap[i]}
           = RunFirst(connects, i)..RunLast(connects, i)
    /\ totalScore = SumGroups(groupMap, GroupIds(groupMap))

C2_Witness ==
  /\ scoreDone /\ groupsDone
  /\ \E i \in Idx : board[i] = Joker /\ NeedsBreak(board, i)
  /\ Cardinality(GroupIds(groupMap)) >= 2
  /\ totalScore > 0

\* C3: a wildcard i that needs a break decision gets connects[i] forced false
\* and connects[i-1] left as pass 1 set it when leftLength >= rightLength,
\* and otherwise connects[i-1] forced false and connects[i] left as pass 1
\* set it; one decision never clears both links.
C3_TieBreakRule ==
  scoreDone =>
    \A i \in Idx :
      (board[i] = Joker /\ NeedsBreak(board, i)) =>
        LET pass1 == connectsLog[1]
            before == connectsLog[i + 1]
            after == connectsLog[i + 2]
        IN /\ IF LeftLength(board, i) >= RightLength(board, i)
              THEN after[i] = FALSE /\ after[i - 1] = pass1[i - 1]
              ELSE after[i - 1] = FALSE /\ after[i] = pass1[i]
           /\ Cardinality({k \in {i - 1, i} : before[k] /\ ~after[k]}) <= 1

\* nearest non-wildcard cell on each side (Null: an empty cell or the edge)
NearestLeft(b, i) ==
  LET S == {k \in 0..(i - 1) : b[k] # Joker}
  IN IF S = {} THEN Null ELSE b[CHOOSE k \in S : \A m \in S : m <= k]
NearestRight(b, i) ==
  LET S == {k \in (i + 1)..19 : b[k] # Joker}
  IN IF S = {} THEN Null ELSE b[CHOOSE k \in S : \A m \in S : k <= m]

DecisionCase(b, i) ==
  /\ b[i] = Joker
  /\ NearestLeft(b, i) # Null
  /\ NearestRight(b, i) # Null
  /\ NearestLeft(b, i) >= NearestRight(b, i)

\* C4: only a wildcard with a numeric neighbour on both sides and
\* before >= after gets a break decision; every other wildcard keeps both of
\* its links to non-empty adjacent cells in the final connects vector.
C4_BreakOnlyWhenDescending ==
  scoreDone =>
    \A i \in Idx :
      /\ connectsLog[i + 2] # connectsLog[i + 1] => DecisionCase(board, i)
      /\ (board[i] = Joker /\ ~DecisionCase(board, i)) =>
           /\ (i > 0 /\ board[i - 1] # Null) => connects[i - 1]
           /\ (i < 19 /\ board[i + 1] # Null) => connects[i]

C4_Witness ==
  /\ scoreDone
  /\ \E i, j \in 1..18 :
       /\ board[i] = Joker /\ ~DecisionCase(board, i)
       /\ board[i - 1] # Null /\ board[i + 1] # Null
       /\ connects[i - 1] /\ connects[i]
       /\ board[j] = Joker /\ DecisionCase(board, j)
       /\ connectsLog[j + 2] # connectsLog[j + 1]

\* the connects vector when wildcard j takes the other side
AltDecision(b, c, i) ==
  IF LeftLength(b, i) >= RightLength(b, i)
  THEN [c EXCEPT ![i - 1] = FALSE]
  ELSE [c EXCEPT ![i] = FALSE]

RECURSIVE AltConnects(_, _, _)
AltConnects(b, j, n) ==
  IF n = 0 THEN connectsLog[1]
  ELSE IF n - 1 = j THEN AltDecision(b, AltConnects(b, j, n - 1), j)
  ELSE ResolveJoker(b, AltConnects(b, j, n - 1), n - 1)

\* C5: for a wildcard that needs a break decision the score is at least the
\* score obtained by breaking its other link instead.
C5_TieBreakMaximizesScore ==
  scoreDone =>
    \A i \in Idx :
      (board[i] = Joker /\ NeedsBreak(board, i)) =>
        totalScore >= ScoreWalk(board, AltConnects(board, i, 20), 0, 0)

\* the only filled cells are p, p+1, p+2
OnlyThree(b, p) == Filled(b) = {p, p + 1, p + 2}

\* C6: [a, wildcard, b] with a >= b and nothing else: leftLength =
\* rightLength = 2, the link wildcard->b is broken, the score is 1 and the
\* group map is exactly {a, wildcard} -> 0.
C6_TieResolvesLeft ==
  \A p \in 0..17 :
    (/\ board[p] # Null
     /\ OnlyThree(board, p)
     /\ IsNumeric(board[p]) /\ board[p + 1] = Joker /\ IsNumeric(board[p + 2])
     /\ board[p] >= board[p + 2]) =>
      /\ scoreDone =>
           /\ LeftLength(board, p + 1) = 2
           /\ RightLength(board, p + 1) = 2
           /\ connects[p] /\ ~connects[p + 1]
           /\ RunsOf(board, connects) = {<<p, p + 1>>, <<p + 2, p + 2>>}
           /\ totalScore = 1
      /\ groupsDone => groupMap = [k \in {p, p + 1} |-> 0]

C6_Witness ==
  /\ scoreDone /\ groupsDone
  /\ \E p \in 0..17 :
       /\ OnlyThree(board, p)
       /\ IsNumeric(board[p]) /\ board[p + 1] = Joker /\ IsNumeric(board[p + 2])
       /\ board[p] > board[p + 2]
       /\ DOMAIN groupMap = {p, p + 1}

\* C7: a wildcard that needs a break decision with rightLength > leftLength
\* has its left link broken and is scored and grouped with the run to its
\* right; [v, wildcard, a, b] with v >= a <= b and nothing else scores 3.
C7_RightLongerJoinsRight ==
  \A i \in Idx :
    (board[i] = Joker /\ NeedsBreak(board, i)
       /\ RightLength(board, i) > LeftLength(board, i)) =>
      /\ scoreDone =>
           /\ ~connects[i - 1] /\ connects[i]
           /\ (Filled(board) = (i - 1)..(i + 2) /\ IsNumeric(board[i + 1])
                 /\ IsNumeric(board[i + 2])) => totalScore = 3
      /\ groupsDone =>
           /\ i \in DOMAIN groupMap /\ (i + 1) \in DOMAIN groupMap
           /\ groupMap[i] = groupMap[i + 1]
           /\ (i - 1) \in DOMAIN groupMap => groupMap[i - 1] # groupMap[i]

\* C8: for two adjacent numeric cells, connects[i] is true in the final
\* vector, and the cells share a run, exactly when board[i] <= board[i+1].
C8_NumericPairs ==
  \A i \in 0..18 :
    (IsNumeric(board[i]) /\ IsNumeric(board[i + 1])) =>
      /\ scoreDone =>
           /\ connects[i] <=> (board[i] <= board[i + 1])
           /\ (RunFirst(connects, i) = RunFirst(connects, i + 1))
                <=> (board[i] <= board[i + 1])
      /\ groupsDone =>
           /\ groupConnects[i] <=> (board[i] <= board[i + 1])
           /\ (i \in DOMAIN groupMap /\ (i + 1) \in DOMAIN groupMap
                 /\ groupMap[i] = groupMap[i + 1])
                <=> (board[i] <= board[i + 1])

C8_Witness ==
  /\ scoreDone /\ groupsDone
  /\ \E i, j, k \in 0..18 :
       /\ IsNumeric(board[i]) /\ board[i] = board[i + 1] /\ connects[i]
       /\ IsNumeric(board[j]) /\ IsNumeric(board[j + 1])
       /\ board[j] > board[j + 1] /\ ~connects[j]
       /\ board[k] = Joker /\ NeedsBreak(board, k)

\* C9: a board with at most one filled cell scores 0 and has no groups.
C9_AtMostOneFilled ==
  Cardinality(Filled(board)) <= 1 =>
    /\ scoreDone => totalScore = 0
    /\ groupsDone => groupMap = EmptyMap

C9_Witness ==
  /\ scoreDone /\ groupsDone
  /\ Cardinality(Filled(board)) = 1
  /\ totalScore = 0

AllNumericAscending(b) ==
  /\ \A i \in Idx : IsNumeric(b[i])
  /\ \A i \in 0..18 : b[i] <= b[i + 1]

\* C10: a board whose 20 cells are numeric and non-decreasing scores 300 and
\* all 20 indices are in group 0.
C10_FullAscendingBoard ==
  AllNumericAscending(board) =>
    /\ scoreDone => totalScore = 300
    /\ groupsDone => groupMap = [i \in Idx |-> 0]

C10_Witness ==
  /\ scoreDone /\ groupsDone
  /\ AllNumericAscending(board)
  /\ board[0] < board[19]
  /\ totalScore = 300

\* ------------------------------------------------------------ placements
\* the board after an empty cell e received the value v
Placed(b, e, v) == [b EXCEPT ![e] = v]

\* v extends the run of a filled left neighbour (it is not below the last
\* number of that run) or of a filled right neighbour (it is not above the
\* first number of that run); wildcards of the run are looked through
ExtendsLeftRun(b, e, v) ==
  /\ e > 0
  /\ b[e - 1] # Null
  /\ (NearestLeft(b, e) = Null \/ v >= NearestLeft(b, e))

ExtendsRightRun(b, e, v) ==
  /\ e < 19
  /\ b[e + 1] # Null
  /\ (NearestRight(b, e) = Null \/ v <= NearestRight(b, e))

\* C11: putting a number that extends an existing ascending run into an
\* empty cell never gives a smaller score than the board had before.
C11_PlacementMonotone ==
  scoreDone =>
    \A e \in Idx, v \in Values :
      (board[e] = Null /\ (ExtendsLeftRun(board, e, v) \/ ExtendsRightRun(board, e, v))) =>
        calculatePlayerScore(Placed(board, e, v)) >= totalScore

\* the same, on boards with at most one wildcard
C11_PlacementMonotoneOneJoker ==
  (Cardinality({i \in Idx : board[i] = Joker}) <= 1) => C11_PlacementMonotone

\* C12: the group map holds an index only if its cell lies in a run of at
\* least two cells (cells of one-cell runs and empty cells are absent); the
\* ids are exactly 0..k-1 for the k runs of at least two cells, they never
\* decrease with the cell index, and each group is an interval of indices.
C12_GroupMapShape ==
  groupsDone =>
    LET k == Cardinality({r \in RunsOf(board, groupConnects) : RunLen(r) >= 2})
    IN /\ \A i \in DOMAIN groupMap :
            /\ i \in Filled(board)
            /\ RunLast(groupConnects, i) > RunFirst(groupConnects, i)
       /\ GroupIds(groupMap) = 0..(k - 1)
       /\ \A i, j \in DOMAIN groupMap : i <= j => groupMap[i] <= groupMap[j]
       /\ \A g \in GroupIds(groupMap) :
            \A i, j \in GroupOf(groupMap, g) : i..j \subseteq GroupOf(groupMap, g)

\* two groups with a one-cell run and an empty cell outside them
C12_Witness ==
  /\ groupsDone
  /\ GroupIds(groupMap) = {0, 1}
  /\ \E i \in Filled(board) : i \notin DOMAIN groupMap
  /\ \E i \in Idx : board[i] = Null

\* ------------------------------------------------------------ stored boards
\* the value the stored board has at index i (Undefined: none)
InputAt(r, i) ==
  IF r.kind = "array"
  THEN IF i \in DOMAIN r.arr THEN r.arr[i] ELSE Undefined
  ELSE IF r.kind = "object"
  THEN LET K == {k \in DOMAIN r.obj : parseInt(k) = i}
       IN IF K = {} THEN Undefined ELSE r.obj[CHOOSE k \in K : TRUE]
  ELSE Undefined

\* C15: for every stored board (an array of any length, an index->value
\* object, null, undefined, a value that is no object) restoreBoardArray
\* returns without raising a dense board of exactly 20 slots, and a slot is
\* non-empty only if the input has a value other than null and undefined at
\* that index; elements at indices outside 0..19 are dropped.
C15_RestoredBoard ==
  /\ ~restoreDone => ENABLED Restore
  /\ restoreDone =>
       /\ DOMAIN restored = Idx
       /\ \A i \in Idx :
            /\ restored[i] \in Cell
            /\ restored[i] # Null => InputAt(raw, i) \notin {Undefined, Null}

\* an array of more than 20 elements with a number past index 19, a hole
\* and a number inside 0..19
C15_Witness ==
  /\ restoreDone
  /\ IsArray(raw)
  /\ 20 \in DOMAIN raw.arr
  /\ raw.arr[20] \in Values
  /\ \E i \in Idx : raw.arr[i] = Undefined
  /\ \E i \in Idx : restored[i] # Null

\* ------------------------------------------------------------ the calls
\* C14: neither call modifies the board it is given: every step of
\* calculatePlayerScore and of getScoringGroups leaves all slots of the
\* board as they were; the calls write only their own connects vector,
\* score and group map.
C14_BoardNotModified == [][board' = board]_vars

\* both calls have run and have written a connects vector and a group map
C14_Witness ==
  /\ scoreDone
  /\ groupsDone
  /\ connects # NoConnects
  /\ groupConnects # NoConnects
  /\ DOMAIN groupMap # {}

\* steps a call can still take: it falls with every step
WalkVariant ==
  3 * (20 - walkI)
  + (IF pc \in {"score", "groups"} THEN 3
     ELSE IF pc \in {"scoreOuter", "groupsOuter"} THEN 2
     ELSE IF pc \in {"scoreInner", "groupsInner"} THEN 1
     ELSE 0)

\* a call inside Step 3 can take its next step, every read of the board, of
\* the connects vector and of the score table is inside it, and a call that
\* returned has a score, or a group map, of the declared type, the one the
\* functions calculatePlayerScore / getScoringGroups give
WalkSafe ==
  /\ pc \in {"scoreOuter", "scoreInner", "groupsOuter", "groupsInner"} =>
       ENABLED NextWalk
  /\ walkI \in 0..20
  /\ WalkVariant \in Nat
  /\ pc \in {"scoreInner", "groupsInner"} => walkI \in Idx
  /\ pc = "scoreInner" => Min(walkRun, 20) \in DOMAIN SCORE_TABLE
  /\ pc = "groupsInner" =>
       \A n \in DOMAIN walkSequence : walkSequence[n] \in Idx
  /\ scoreDone =>
       /\ totalScore \in Nat
       /\ totalScore = calculatePlayerScore(board)
  /\ groupsDone =>
       /\ DOMAIN groupMap \subseteq Idx
       /\ \A i \in DOMAIN groupMap : groupMap[i] \in Nat
       /\ groupMap = getScoringGroups(board)

\* C16: on every 20-slot board over {number, wildcard, empty} each of the
\* two functions terminates and returns a result without raising: a call
\* that has not returned can always take a step, every step lowers a
\* natural-valued measure, no read leaves the board, the connects vector or
\* the score table, and the call returns a natural score or a map from board
\* indices to natural group ids.
C16_CallsAreTotal == []WalkSafe /\ [][WalkVariant' < WalkVariant]_vars

\* a call of each kind returned on a board with a number, a wildcard in the
\* last cell and an empty cell
C16_Witness ==
  /\ pc = "done"
  /\ board[19] = Joker
  /\ \E i, j \in Idx : board[i] \in Values /\ board[j] = Null
  /\ scoreDone \/ groupsDone

\* C17: given a board whose length is not 20, calculatePlayerScore and
\* getScoringGroups signal an error: no call on such a board returns a
\* score or a group map.
C17_FailFast ==
  DOMAIN board # Idx => (~scoreDone /\ ~groupsDone)

\* C18: in the final connects vector connects[i] is true only if board[i]
\* and board[i+1] are both non-empty; so every run and every group consists
\* of filled cells only, and no run reaches across an empty cell.
C18_ConnectsOnlyFilled ==
  /\ scoreDone =>
       /\ \A i \in Idx :
            connects[i] => (i < 19 /\ board[i] # Null /\ board[i + 1] # Null)
       /\ \A i \in Filled(board) :
            RunFirst(connects, i)..RunLast(connects, i) \subseteq Filled(board)
  /\ groupsDone =>
       /\ \A i \in Idx :
            groupConnects[i] => (i < 19 /\ board[i] # Null /\ board[i + 1] # Null)
       /\ DOMAIN groupMap \subseteq Filled(board)

\* a wildcard and a filled cell with one empty cell between them
C18_Witness ==
  /\ scoreDone
  /\ groupsDone
  /\ \E i \in 1..18 :
       /\ board[i] = Null
       /\ board[i - 1] = Joker
       /\ board[i + 1] # Null
       /\ ~connects[i - 1] /\ ~connects[i]

\* two numeric cells in descending order
Descending(x, y) == IsNumeric(x) /\ IsNumeric(y) /\ x > y

\* the filled cells before i back to the first empty cell, the edge or the
\* first descending pair of two numbers, plus the cell i itself
StatedLeftLength(b, i) ==
  LET S == {s \in 0..i :
              \A k \in s..(i - 1) :
                /\ b[k] # Null
                /\ k > s => ~Descending(b[k - 1], b[k])}
  IN i - (CHOOSE s \in S : \A x \in S : s <= x) + 1

StatedRightLength(b, i) ==
  LET S == {e \in i..19 :
              \A k \in (i + 1)..e :
                /\ b[k] # Null
                /\ k < e => ~Descending(b[k], b[k + 1])}
  IN (CHOOSE e \in S : \A x \in S : x <= e) - i + 1

\* C19: for a wildcard that needs a break decision leftLength is the number
\* of cells of the filled stretch reaching back from the wildcard (the
\* wildcard included) up to the first empty cell, the edge or the first
\* descending pair of two numbers, pairs with a wildcard never stopping the
\* walk; rightLength is the mirror image.
C19_WalkLengths ==
  scoreDone =>
    \A i \in Idx :
      (board[i] = Joker /\ NeedsBreak(board, i)) =>
        /\ LeftLength(board, i) = StatedLeftLength(board, i)
        /\ RightLength(board, i) = StatedRightLength(board, i)

\* the same, on boards with at most one wildcard
C19_WalkLengthsOneJoker ==
  (Cardinality({i \in Idx : board[i] = Joker}) <= 1) => C19_WalkLengths

\* the connects vectors Step 2 can end with when the wildcards J are
\* resolved, starting from c, in every possible order
RECURSIVE ResolveOrders(_, _, _)
ResolveOrders(b, c, J) ==
  IF J = {} THEN {c}
  ELSE UNION {ResolveOrders(b, ResolveJoker(b, c, j), J \ {j}) : j \in J}

\* C20: the resolutions of the wildcards do not depend on the processing
\* order: resolving the wildcards of a board in any order, starting from the
\* connects vector of Step 1, ends with the connects vector the code
\* computes in ascending order.
C20_OrderIndependent ==
  scoreDone =>
    ResolveOrders(board, connectsLog[1], {i \in Idx : board[i] = Joker}) = {connects}

\* two adjacent wildcards and a third one, all with a break decision taken
C20_Witness ==
  /\ scoreDone
  /\ \E i, j \in Idx :
       /\ i + 1 < j
       /\ board[i] = Joker /\ board[i + 1] = Joker /\ board[j] = Joker
       /\ NeedsBreak(board, i) /\ NeedsBreak(board, i + 1) /\ NeedsBreak(board, j)
       /\ connects # connectsLog[1]

\* C21: the scans for the nearest number before and after a wildcard pass
\* over other wildcards and end at a number, an empty cell or the edge; so
\* two adjacent wildcards see the same before and after values, and when
\* before >= after each wildcard of the block takes a break decision of its
\* own (after its iteration one of its two links is cleared).
C21_BlockSeesSameNeighbours ==
  /\ scoreDone =>
       \A i \in Idx :
         board[i] = Joker =>
           /\ BeforeVal(board, i) = NearestLeft(board, i)
           /\ AfterVal(board, i) = NearestRight(board, i)
           /\ (i < 19 /\ board[i + 1] = Joker) =>
                /\ BeforeVal(board, i + 1) = BeforeVal(board, i)
                /\ AfterVal(board, i + 1) = AfterVal(board, i)
                /\ NeedsBreak(board, i + 1) <=> NeedsBreak(board, i)
           /\ NeedsBreak(board, i) =>
                /\ connectsLog[i + 2] = BreakDecision(board, connectsLog[i + 1], i)
                /\ \E k \in {i - 1, i} : ~connectsLog[i + 2][k]
  /\ groupsDone =>
       \A i \in Idx :
         board[i] = Joker =>
           /\ GroupScanBefore(board, i - 1) = NearestLeft(board, i)
           /\ GroupScanAfter(board, i + 1) = NearestRight(board, i)

\* a block of two adjacent wildcards between numbers with before >= after
C21_Witness ==
  /\ scoreDone
  /\ groupsDone
  /\ \E i \in 1..17 :
       /\ board[i] = Joker /\ board[i + 1] = Joker
       /\ IsNumeric(board[i - 1]) /\ IsNumeric(board[i + 2])
       /\ board[i - 1] >= board[i + 2]
       /\ NeedsBreak(board, i) /\ NeedsBreak(board, i + 1)

\* C22: a wildcard whose nearest numbers are equal gets a break decision;
\* a board whose only filled cells are v, wildcard, v is split into the run
\* {v, wildcard} and the run {v} and scores 1.
C22_EqualNeighboursBreak ==
  /\ scoreDone =>
       \A i \in Idx :
         /\ (/\ board[i] = Joker
             /\ IsNumeric(NearestLeft(board, i))
             /\ NearestLeft(board, i) = NearestRight(board, i)) =>
              /\ NeedsBreak(board, i)
              /\ ~connects[i - 1] \/ ~connects[i]
         /\ (/\ i < 18
             /\ IsNumeric(board[i])
             /\ board[i + 1] = Joker
             /\ board[i + 2] = board[i]
             /\ OnlyThree(board, i)) =>
              /\ connects[i]
              /\ ~connects[i + 1]
              /\ RunsOf(board, connects) = {<<i, i + 1>>, <<i + 2, i + 2>>}
              /\ totalScore = 1
  /\ groupsDone =>
       \A i \in 0..17 :
         (/\ IsNumeric(board[i])
          /\ board[i + 1] = Joker
          /\ board[i + 2] = board[i]
          /\ OnlyThree(board, i)) =>
           groupMap = [idx \in {i, i + 1} |-> 0]

C22_Witness ==
  /\ scoreDone
  /\ groupsDone
  /\ \E i \in 0..17 :
       /\ OnlyThree(board, i)
       /\ IsNumeric(board[i])
       /\ board[i + 1] = Joker
       /\ board[i + 2] = board[i]
       /\ totalScore = 1

\* two runs never score more than one run of as many cells
TableSuperadditive ==
  \A x \in 1..19 : \A y \in 1..(20 - x) :
    SCORE_TABLE[x] + SCORE_TABLE[y] <= SCORE_TABLE[x + y]

\* C23: the score is an integer in 0..300; it is 300 exactly when the 20
\* cells form one run, and at most 150 otherwise.  (No split of up to 20
\* cells into two runs scores more than one run of as many cells, so the
\* best board that is not one run is a run of 19 and a run of 1.)
C23_ScoreRange ==
  scoreDone =>
    /\ totalScore \in 0..300
    /\ totalScore = 300 <=> RunsOf(board, connects) = {<<0, 19>>}
    /\ totalScore # 300 => totalScore <= 150
    /\ TableSuperadditive

\* a run of 19 cells and a run of one cell
C23_Witness ==
  /\ scoreDone
  /\ totalScore = 150
  /\ \E r \in RunsOf(board, connects) : RunLen(r) = 19
  /\ Filled(board) = Idx

WellFormedBoard(a) == DOMAIN a = Idx /\ \A i \in Idx : a[i] \in Cell

RestoredTwiceIsRestored ==
  restoreDone =>
    /\ restoreBoardArray(ArrayInput(restored)) = restored
    /\ (IsArray(raw) /\ WellFormedBoard(raw.arr)) => restored = raw.arr
    /\ IsArray(raw) =>
         restoreBoardArray(ObjectInput(FirebaseObject(raw.arr))) = restored

\* C24: restoreBoardArray applied to its own result returns that result, a
\* well-formed 20-slot board is returned unchanged and the argument is not
\* modified, and an array and the index->value object stored for it restore
\* to the same board.
C24_RestoreIdempotent == []RestoredTwiceIsRestored /\ [][raw' = raw]_vars

\* a restored array with holes, a number inside 0..19 and a wildcard past
\* index 19
C24_Witness ==
  /\ restoreDone
  /\ IsArray(raw)
  /\ Idx \subseteq DOMAIN raw.arr
  /\ \E i, k \in Idx : raw.arr[i] = Undefined /\ raw.arr[k] \in Values
  /\ \E i \in DOMAIN raw.arr : i > 19 /\ raw.arr[i] = Joker
  /\ restored # EmptyBoard

\* the teams of the game data that have a player
PlayingTeams(g) ==
  {k \in DOMAIN SafeTeams(g) : SafePlayers(g.teams[k]) > 0}

NoEmptySlot(r) == \A i \in Idx : restoreBoardArray(r)[i] # Null

\* the game data without its teams that have no player
WithoutIdleTeams(g) ==
  [g EXCEPT !.teams = SelectSeq(SafeTeams(g), LAMBDA t : SafePlayers(t) > 0)]

\* the game data with an empty board for every team that has no player
IdleTeamsEmptied(g) ==
  [g EXCEPT !.teams =
     [k \in DOMAIN SafeTeams(g) |->
        IF SafePlayers(g.teams[k]) > 0 THEN g.teams[k]
        ELSE [g.teams[k] EXCEPT !.board = ArrayInput(EmptyBoard)]]]

\* C25: checkGameEnd returns true exactly when currentRound >= 20 or every
\* team with at least one player has a normalized board without an empty
\* slot (true when no team has players); the teams without players do not
\* influence the result.
C25_GameEnd ==
  endDone =>
    /\ gameEnd <=>
         \/ gameData.currentRound >= 20
         \/ \A k \in PlayingTeams(gameData) :
              NoEmptySlot(gameData.teams[k].board)
    /\ gameData.teamsIsArray =>
         /\ checkGameEnd(WithoutIdleTeams(gameData)) = gameEnd
         /\ checkGameEnd(IdleTeamsEmptied(gameData)) = gameEnd

\* before round 20: a team without players has an empty slot, the teams with
\* players have none and the game has ended
C25_Witness ==
  /\ endDone
  /\ gameEnd
  /\ gameData.currentRound < 20
  /\ PlayingTeams(gameData) # {}
  /\ \E k \in DOMAIN SafeTeams(gameData) :
       /\ k \notin PlayingTeams(gameData)
       /\ ~NoEmptySlot(gameData.teams[k].board)
  /\ \E k \in PlayingTeams(gameData) : ~IsArray(gameData.teams[k].board)

\* C26: calculateFinalRanking returns exactly the teams with at least one
\* player, each once, with the ranks 1..n, scores that do not increase with
\* the rank, and teams of equal score in their original order.
C26_FinalRanking ==
  rankingDone =>
    LET n == Len(finalRanking)
    IN /\ {finalRanking[k].teamNumber : k \in 1..n} =
            {gameData.teams[k].teamNumber : k \in PlayingTeams(gameData)}
       /\ n = Cardinality(PlayingTeams(gameData))
       /\ \A k \in 1..n :
            /\ finalRanking[k].rank = k
            /\ \E j \in PlayingTeams(gameData) :
                 /\ gameData.teams[j].teamNumber = finalRanking[k].teamNumber
                 /\ gameData.teams[j].score = finalRanking[k].score
                 /\ SafePlayers(gameData.teams[j]) = finalRanking[k].players
       /\ \A k \in 1..(n - 1) :
            /\ finalRanking[k].score >= finalRanking[k + 1].score
            /\ finalRanking[k].score = finalRanking[k + 1].score =>
                 finalRanking[k].teamNumber < finalRanking[k + 1].teamNumber

\* three teams, the second without players: the other two have the same
\* score and are ranked 1 and 2 in the order of the team list
C26_Witness ==
  /\ rankingDone
  /\ Len(SafeTeams(gameData)) = 3
  /\ Len(finalRanking) = 2
  /\ finalRanking[1].teamNumber = 1
  /\ finalRanking[2].teamNumber = 3
  /\ finalRanking[1].score = finalRanking[2].score
  /\ gameData.teams[3].score > gameData.teams[2].score

\* the restored board of team t in the game g
BoardOf(g, t) == restoreBoardArray(g.teams[t].board)

\* no team has more filled cells than numbers were issued
FilledWithinRounds(g) ==
  \A t \in DOMAIN g.teams : FilledCount(BoardOf(g, t)) <= g.currentRound

\* a step of placeNumberInTeam that changed the games of the device
PlacementStep == lastCall' = "placeNumberInTeam" /\ games' # games

\* such a step was taken on a rendered game that is started and not ended,
\* whose team had not placed and whose currentNumber is set; it wrote
\* currentNumber into one empty cell of the team's rendered board, left its
\* other cells as they were, and marked the team as placed
PlacementIsSafe ==
  PlacementStep =>
    LET t == session.myTeamId
        before == BoardOf(activeGame, t)
        after == BoardOf(games', t)
    IN /\ activeGame.gameStarted /\ ~activeGame.gameEnded
       /\ ~activeGame.teams[t].hasPlacedCurrentNumber
       /\ activeGame.currentNumber # Null
       /\ \E position \in Idx :
            /\ before[position] = Null
            /\ after = [before EXCEPT ![position] = activeGame.currentNumber]
       /\ games'.teams[t].hasPlacedCurrentNumber

C28_RoundOrdering ==
  ( /\ session.role = "HOST"
    /\ HostControls(activeGame)
    /\ ~activeGame.waitingForPlacements
    /\ activeGame.currentNumber # Null )
  => AllPlaced(activeGame.teams)

\* every team's stored score is the score of its stored board
Coherent(g) ==
  \A t \in DOMAIN g.teams :
    g.teams[t].score = calculatePlayerScore(BoardOf(g, t))

\* C29: after any interleaving of placements and merges of Firebase
\* snapshots every team's stored score is calculatePlayerScore of its stored
\* board, on the device and in the stored copy.
C29_ScoreMatchesBoard == Coherent(games) /\ Coherent(firebase)

\* ------------------------------- the two scoring implementations compared
\* a call of calculatePlayerScore(board) of src/utils.ts: utilsScore is its
\* return value
UtilsScoreCall ==
  /\ ~utilsScoreDone
  /\ utilsScoreDone' = TRUE
  /\ utilsScore' = UtilsCalculatePlayerScore(board)
  /\ UNCHANGED <<utilsGroupsDone, utilsGroupMap, scoreVars, restoreVars,
                 walkVars, endVars, gameVars>>

\* a call of getScoringGroups(board) of src/utils.ts: utilsGroupMap is its
\* return value
UtilsGroupsCall ==
  /\ ~utilsGroupsDone
  /\ utilsGroupsDone' = TRUE
  /\ utilsGroupMap' = UtilsGetScoringGroups(board)
  /\ UNCHANGED <<utilsScoreDone, utilsScore, scoreVars, restoreVars,
                 walkVars, endVars, gameVars>>

NextUtils == UtilsScoreCall \/ UtilsGroupsCall

\* one board, scored and grouped by src/utils.ts in either order
SpecUtils == Init /\ [][NextUtils]_vars

NoWildcard(b) == \A i \in Idx : b[i] # Joker

\* C30: on a board of numbers and empty cells calculatePlayerScore and
\* getScoringGroups of src/utils.ts return the score and the group map that
\* the connects-vector versions return; the results of the two
\* implementations differ only on a board that holds a wildcard.
C30_UtilsAgree ==
  NoWildcard(board) =>
    /\ utilsScoreDone => utilsScore = calculatePlayerScore(board)
    /\ utilsGroupsDone => utilsGroupMap = getScoringGroups(board)

\* src/utils.ts has scored and grouped a board without wildcard on which
\* two equal numbers are adjacent
C30_Witness ==
  /\ utilsScoreDone /\ utilsGroupsDone
  /\ NoWildcard(board)
  /\ \E i \in 0..(BoardLen - 2) : board[i] # Null /\ board[i] = board[i + 1]
  /\ utilsScore > 0
  /\ utilsScore = calculatePlayerScore(board)
  /\ utilsGroupMap # EmptyMap
  /\ utilsGroupMap = getScoringGroups(board)

====
